---- MODULE Spec2Model ----
(***************************************************************************)
(* Model of sentinel-ratelimit: the in-memory storage backend, the Token   *)
(* Bucket and Sliding Window strategies built on it, and the HTTP          *)
(* middleware that turns their decisions into responses.                    *)
(*                                                                          *)
(* Time is measured in clock ticks; tps ticks make one second.  A value    *)
(* the code holds as a float (a timestamp, a token count, a duration) is   *)
(* held exactly: timestamps as whole ticks, token counts as whole          *)
(* multiples of 1/TokenScale token, durations in seconds as fractions      *)
(* [n, d].  Floating-point rounding is not modelled.                       *)
(***************************************************************************)
EXTENDS Integers, Sequences, FiniteSets, TLC

\* ------------------------------------------------------------------ bounds
MaxLimit == 2
MaxWindow == 2
TicksPerSecond == 2
MaxTime == 9
MaxSkew == 2

Limits == 1..MaxLimit
Windows == 1..MaxWindow

VARIABLES
    strategy,      \* the configured strategy: "tb" or "sw"
    cfg_limit,     \* the limit passed to every check
    cfg_window,    \* the window passed to every check, in seconds
    tps,           \* resolution of the clock: ticks per second
    clock,         \* what time.time() returns now, in ticks
    data,          \* InMemoryBackend._data
    sorted_sets,   \* InMemoryBackend._sorted_sets
    expiry,        \* InMemoryBackend._expiry
    last,          \* the call that completed last, what it returned, and the kind of call before it
    hist,          \* per observed key: timestamps of its ALLOWED decisions still in the window
    pc,            \* per concurrent caller: the storage call it makes next
    loc,           \* per concurrent caller: the locals of its check
    resp           \* what the middleware's dispatch returned last

vars == <<strategy, cfg_limit, cfg_window, tps, clock, data, sorted_sets, expiry,
          last, hist, pc, loc, resp>>

\* ------------------------------------------------------------ small helpers
\* Python's Optional: None is the empty set, a value v is {v}.
None == {}
Some(v) == {v}
TheValue(o) == CHOOSE v \in o : TRUE

Min(a, b) == IF a <= b THEN a ELSE b
Max(a, b) == IF a >= b THEN a ELSE b

\* Exact fractions n/d with d > 0.
Frac(n, d) == [n |-> n, d |-> d]
FracLess(a, b) == a.n * b.d < b.n * a.d
FracLeq(a, b) == a.n * b.d <= b.n * a.d
FracAdd(a, b) == Frac(a.n * b.d + b.n * a.d, a.d * b.d)
FracOfInt(i) == Frac(i, 1)

RECURSIVE Product(_)
Product(n) == IF n <= 1 THEN 1 ELSE n * Product(n - 1)

\* One token is TokenScale units; every refill over whole ticks is a whole
\* number of units for every window in Windows.
TokenScale == tps * Product(MaxWindow)

\* A duration of s seconds, in ticks.
Ticks(s) == s * tps
\* A timestamp in ticks, as seconds.
Seconds(t) == Frac(t, tps)

\* ------------------------------------------------------- InMemoryBackend
\* A backend value b is the three dicts; a dict is a function whose DOMAIN is
\* its key set.  Every operation takes the value t that its own time.time()
\* call returns.
EmptyDict == <<>>
Pop(dict, key) == [x \in (DOMAIN dict) \ {key} |-> dict[x]]
Put(dict, key, value) == [x \in (DOMAIN dict) \cup {key} |-> IF x = key THEN value ELSE dict[x]]

Backend(d, s, e) == [data |-> d, sorted_sets |-> s, expiry |-> e]

IsExpired(b, key, t) ==
    IF key \in DOMAIN b.expiry THEN t > b.expiry[key] ELSE FALSE

\* Mutant of DropKey: the expiry dict is cleared instead of popped.
DropKeyClearingExpiry(b, key) ==
    Backend(Pop(b.data, key), Pop(b.sorted_sets, key), EmptyDict)

DropKey(b, key) ==
    Backend(Pop(b.data, key), Pop(b.sorted_sets, key), Pop(b.expiry, key))

\* Mutant of CleanupIfExpired: the deadline of the expired key is left behind.
CleanupKeepingDeadline(b, key, t) ==
    IF IsExpired(b, key, t)
    THEN Backend(Pop(b.data, key), Pop(b.sorted_sets, key), b.expiry)
    ELSE b

CleanupIfExpired(b, key, t) ==
    IF IsExpired(b, key, t) THEN DropKey(b, key) ELSE b

Get(b, key, t) ==
    IF IsExpired(b, key, t)
    THEN [b |-> CleanupIfExpired(b, key, t), ret |-> None]
    ELSE [b |-> b,
          ret |-> IF key \in DOMAIN b.data THEN Some(b.data[key]) ELSE None]

\* Mutant of Set: the value is stored and the deadline is left as it was.
SetWithoutTtl(b, key, value, ttl, t) ==
    Backend(Put(b.data, key, value), b.sorted_sets, b.expiry)

Set(b, key, value, ttl, t) ==
    Backend(Put(b.data, key, value), b.sorted_sets, Put(b.expiry, key, t + Ticks(ttl)))

\* Mutant of Delete: the sorted set is left behind.
DeleteValueOnly(b, key) ==
    Backend(Pop(b.data, key), b.sorted_sets, Pop(b.expiry, key))

Delete(b, key) == DropKey(b, key)

\* list.sort(key=score) is stable: entries of equal score keep their order.
RECURSIVE InsertByScore(_, _)
InsertByScore(sorted, e) ==
    IF sorted = <<>> THEN <<e>>
    ELSE IF sorted[Len(sorted)].score <= e.score THEN Append(sorted, e)
    ELSE Append(InsertByScore(SubSeq(sorted, 1, Len(sorted) - 1), e), sorted[Len(sorted)])

RECURSIVE SortByScore(_)
SortByScore(items) ==
    IF items = <<>> THEN <<>>
    ELSE InsertByScore(SortByScore(SubSeq(items, 1, Len(items) - 1)), items[Len(items)])

Entry(score, member) == [score |-> score, member |-> member]

\* Mutant of OtherMember: an entry of the same member is kept too.
AnyMember(e, member) == e.member = e.member

OtherMember(e, member) == e.member /= member

Zadd(b, key, score, member, t) ==
    LET c == CleanupIfExpired(b, key, t)
        old == IF key \in DOMAIN c.sorted_sets THEN c.sorted_sets[key] ELSE <<>>
        kept == SelectSeq(old, LAMBDA e : OtherMember(e, member))
        new == SortByScore(Append(kept, Entry(score, member)))
    IN  Backend(c.data, Put(c.sorted_sets, key, new), c.expiry)

InRemovalRange(score, min_score, max_score) ==
    min_score <= score /\ score <= max_score

Zremrangebyscore(b, key, min_score, max_score, t) ==
    IF IsExpired(b, key, t) THEN [b |-> CleanupIfExpired(b, key, t), ret |-> 0]
    ELSE IF key \notin DOMAIN b.sorted_sets THEN [b |-> b, ret |-> 0]
    ELSE LET old == b.sorted_sets[key]
             kept == SelectSeq(old, LAMBDA e : ~InRemovalRange(e.score, min_score, max_score))
         IN  [b |-> Backend(b.data, Put(b.sorted_sets, key, kept), b.expiry),
              ret |-> Len(old) - Len(kept)]

Zcard(b, key, t) ==
    IF IsExpired(b, key, t) THEN [b |-> CleanupIfExpired(b, key, t), ret |-> 0]
    ELSE [b |-> b,
          ret |-> IF key \in DOMAIN b.sorted_sets THEN Len(b.sorted_sets[key]) ELSE 0]

\* items[start:end] as Python slices a list: a negative index counts from the
\* end, and both indices are clamped to the list.
PySlice(items, start, end) ==
    LET n == Len(items)
        lo == IF start < 0 THEN Max(0, n + start) ELSE Min(n, start)
        hi == IF end < 0 THEN Max(0, n + end) ELSE Min(n, end)
    IN  IF lo >= hi THEN <<>> ELSE SubSeq(items, lo + 1, hi)

Zrange(b, key, start, stop, t) ==
    IF IsExpired(b, key, t) THEN [b |-> CleanupIfExpired(b, key, t), ret |-> <<>>]
    ELSE LET items == IF key \in DOMAIN b.sorted_sets THEN b.sorted_sets[key] ELSE <<>>
             length == Len(items)
             start2 == IF start < 0 THEN Max(0, length + start) ELSE start
             stop2 == IF stop < 0 THEN length + stop ELSE stop
             end == stop2 + 1
             picked == PySlice(items, start2, end)
         IN  [b |-> b,
              ret |-> IF items = <<>> THEN <<>>
                      ELSE [i \in 1..Len(picked) |-> picked[i].member]]

Expire(b, key, seconds, t) ==
    IF key \in DOMAIN b.data \/ key \in DOMAIN b.sorted_sets
    THEN Backend(b.data, b.sorted_sets, Put(b.expiry, key, t + Ticks(seconds)))
    ELSE b

\* ------------------------------------------------------------- strategies
ALLOWED == "allowed"
DENIED == "denied"

Decision(status, limit, remaining, reset_at, retry_after) ==
    [status |-> status, limit |-> limit, remaining |-> remaining,
     reset_at |-> reset_at, retry_after |-> retry_after]

StorageKey(prefix, key) == <<prefix, key>>

\* What a check yields in place of a decision when a float division by zero
\* raises inside it.
ZeroDivisionError == [status |-> "ZeroDivisionError"]

\* f"{now}" and float(...) of it: the text is kept as a value of its own kind,
\* distinct texts for distinct floats, parsed back to the float it came from.
FormatFloat(x) == [repr |-> x]
ParseFloat(s) == s.repr

\* int(x) of the float x = n/d, d > 0: truncation towards zero.
PyInt(n, d) == IF n >= 0 THEN n \div d ELSE -((-n) \div d)

\* --- Token Bucket
TB_KEY_PREFIX == "tb"

\* Units of token added per tick at limit / window_seconds tokens per second.
\* Mutant of RefillPerTick: the rate is window / limit instead of limit / window.
RefillPerTickInverted(limit, window_seconds) ==
    (window_seconds * TokenScale) \div Ticks(limit)

RefillPerTick(limit, window_seconds) == (limit * TokenScale) \div Ticks(window_seconds)

\* Mutant of Refilled: the refill is not capped at the limit.
RefilledUncapped(state, limit, window_seconds, now) ==
    IF state = None THEN limit * TokenScale
    ELSE TheValue(state).tokens
             + (now - TheValue(state).last_refill) * RefillPerTick(limit, window_seconds)

Refilled(state, limit, window_seconds, now) ==
    IF state = None THEN limit * TokenScale
    ELSE LET current_tokens == TheValue(state).tokens
             last_refill == TheValue(state).last_refill
             elapsed == now - last_refill
             tokens_to_add == elapsed * RefillPerTick(limit, window_seconds)
         IN  Min(limit * TokenScale, current_tokens + tokens_to_add)

\* Mutant of HasToken: a bucket holding exactly one token is refused.
HasTokenStrict(current_tokens) == current_tokens > TokenScale

HasToken(current_tokens) == current_tokens >= TokenScale

\* Mutant of BucketState: the token just consumed is still in the saved count.
BucketStateUnconsumed(tokens, last_refill) ==
    [tokens |-> tokens + TokenScale, last_refill |-> last_refill]

BucketState(tokens, last_refill) == [tokens |-> tokens, last_refill |-> last_refill]

\* What check does with the state it read: the decision, and the bucket it
\* saves (none when it denies).
TBDecide(state, limit, window_seconds, now) ==
    LET current_tokens == Refilled(state, limit, window_seconds, now)
    IN  IF HasToken(current_tokens)
        THEN LET new_tokens == current_tokens - TokenScale
             IN  [save |-> Some(BucketState(new_tokens, now)),
                  d |-> Decision(ALLOWED, limit, PyInt(new_tokens, TokenScale),
                                 FracAdd(Seconds(now), FracOfInt(window_seconds)), None)]
        ELSE LET tokens_needed == TokenScale - current_tokens
                 retry_after == Frac(tokens_needed * window_seconds, TokenScale * limit)
             IN  [save |-> None,
                  d |-> IF limit = 0
                        THEN \* tokens_needed / refill_rate with refill_rate = 0.0
                             ZeroDivisionError
                        ELSE Decision(DENIED, limit, 0,
                                      FracAdd(Seconds(now), retry_after), Some(retry_after))]

SaveState(b, storage_key, state, ttl, t) == Set(b, storage_key, state, ttl, t)

\* ts[1], ts[2]: the clock as read inside backend.get and backend.set.
TBCheck(b, key, limit, window_seconds, now, ts) ==
    LET storage_key == StorageKey(TB_KEY_PREFIX, key)
        got == Get(b, storage_key, ts[1])
        dec == TBDecide(got.ret, limit, window_seconds, now)
    IN  IF window_seconds = 0
        THEN \* refill_rate = limit / window_seconds raises before any storage call
             [b |-> b, d |-> ZeroDivisionError]
        ELSE IF dec.save /= None
        THEN [b |-> SaveState(got.b, storage_key, TheValue(dec.save),
                              window_seconds * 2, ts[2]),
              d |-> dec.d]
        ELSE [b |-> got.b, d |-> dec.d]

TBReset(b, key) == Delete(b, StorageKey(TB_KEY_PREFIX, key))

\* --- Sliding Window
SW_KEY_PREFIX == "sw"
MinScore == 0
RetryFloor == Frac(1, 10)

\* Mutant of UnderLimit: a full window still admits.
UnderLimitInclusive(request_count, limit) == request_count <= limit

UnderLimit(request_count, limit) == request_count < limit

\* Mutant of CalculateRetryAfter: the wait is measured from window_start
\* instead of now.
CalculateRetryAfterFromWindowStart(b, storage_key, window_seconds, now, t) ==
    LET oldest_timestamps == Zrange(b, storage_key, 0, 0, t)
    IN  [b |-> oldest_timestamps.b,
         ret |-> IF oldest_timestamps.ret /= <<>>
                 THEN LET oldest == ParseFloat(oldest_timestamps.ret[1])
                          retry_after == Frac((oldest + Ticks(window_seconds))
                                                  - (now - Ticks(window_seconds)), tps)
                      IN  IF FracLess(RetryFloor, retry_after) THEN retry_after
                          ELSE RetryFloor
                 ELSE FracOfInt(window_seconds)]

\* t: the clock as read inside backend.zrange.
CalculateRetryAfter(b, storage_key, window_seconds, now, t) ==
    LET oldest_timestamps == Zrange(b, storage_key, 0, 0, t)
    IN  [b |-> oldest_timestamps.b,
         ret |-> IF oldest_timestamps.ret /= <<>>
                 THEN LET oldest == ParseFloat(oldest_timestamps.ret[1])
                          retry_after == Frac((oldest + Ticks(window_seconds)) - now, tps)
                      IN  IF FracLess(RetryFloor, retry_after) THEN retry_after
                          ELSE RetryFloor
                 ELSE FracOfInt(window_seconds)]

SWAllowed(limit, request_count, window_seconds, now) ==
    Decision(ALLOWED, limit, limit - request_count - 1,
             FracAdd(Seconds(now), FracOfInt(window_seconds)), None)

\* Mutant of SWDenied: retry_after is not passed on.
SWDeniedNoRetry(limit, retry_after, now) ==
    Decision(DENIED, limit, 0, FracAdd(Seconds(now), retry_after), None)

SWDenied(limit, retry_after, now) ==
    Decision(DENIED, limit, 0, FracAdd(Seconds(now), retry_after), Some(retry_after))

\* ts[1..4]: the clock as read inside zremrangebyscore, zcard, zadd (or zrange)
\* and expire.
SWCheck(b, key, limit, window_seconds, now, ts) ==
    LET storage_key == StorageKey(SW_KEY_PREFIX, key)
        window_start == now - Ticks(window_seconds)
        evicted == Zremrangebyscore(b, storage_key, MinScore, window_start, ts[1])
        counted == Zcard(evicted.b, storage_key, ts[2])
        request_count == counted.ret
    IN  IF UnderLimit(request_count, limit)
        THEN LET timestamp_str == FormatFloat(now)
                 added == Zadd(counted.b, storage_key, now, timestamp_str, ts[3])
             IN  [b |-> Expire(added, storage_key, window_seconds, ts[4]),
                  d |-> SWAllowed(limit, request_count, window_seconds, now)]
        ELSE LET retry == CalculateRetryAfter(counted.b, storage_key, window_seconds,
                                              now, ts[3])
             IN  [b |-> retry.b, d |-> SWDenied(limit, retry.ret, now)]

SWReset(b, key) == Delete(b, StorageKey(SW_KEY_PREFIX, key))

\* The strategy installed at startup.
StrategyCheck(b, key, limit, window_seconds, now, ts) ==
    IF strategy = "tb" THEN TBCheck(b, key, limit, window_seconds, now, ts)
    ELSE SWCheck(b, key, limit, window_seconds, now, ts)

StrategyReset(b, key) ==
    IF strategy = "tb" THEN TBReset(b, key) ELSE SWReset(b, key)

Prefix == IF strategy = "tb" THEN TB_KEY_PREFIX ELSE SW_KEY_PREFIX

\* ------------------------------------------------------ sequential calls
TheBackend == Backend(data, sorted_sets, expiry)

\* The clock readings of one call: the strategy's own (now), then one per
\* storage call; the clock advances by up to MaxSkew ticks while the call runs.
Skews == {ds \in [1..4 -> 0..MaxSkew] : ds[1] + ds[2] + ds[3] + ds[4] <= MaxSkew}
NoSkew == [i \in 1..4 |-> 0]

ReadTimes(now, ds) ==
    [i \in 1..4 |-> now + ds[1] + (IF i >= 2 THEN ds[2] ELSE 0)
                        + (IF i >= 3 THEN ds[3] ELSE 0) + (IF i >= 4 THEN ds[4] ELSE 0)]

MaxHist == 2 * MaxLimit

\* The ALLOWED timestamps that can still share a window with one at or after t.
Live(h, t) == SelectSeq(h, LAMBDA s : s > t - Ticks(cfg_window))

HistAfter(h, d, now) ==
    LET more == IF d.status = ALLOWED THEN Append(Live(h, now), now) ELSE Live(h, now)
    IN  IF Len(more) > MaxHist THEN Tail(more) ELSE more

NoCall == [op |-> "none", key |-> "", now |-> 0, decision |-> None, prev |-> "none"]
NoResponse ==
    [outcome |-> "none", status_code |-> 0, headers |-> EmptyDict, forwarded |-> 0,
     downstream |-> None]
NoLocals == [now |-> 0, state |-> None, request_count |-> 0, decision |-> None]

\* A fresh backend and a configured strategy; observed: the keys whose ALLOWED
\* decisions are recorded in hist; callers: the tasks that run check
\* concurrently.
StartWith(observed, callers, limits, windows) ==
    /\ strategy \in {"tb", "sw"}
    /\ cfg_limit \in limits
    /\ cfg_window \in windows
    /\ tps = TicksPerSecond
    /\ clock = 0
    /\ data = EmptyDict
    /\ sorted_sets = EmptyDict
    /\ expiry = EmptyDict
    /\ last = NoCall
    /\ hist = [k \in observed |-> <<>>]
    /\ pc = [p \in callers |-> "idle"]
    /\ loc = [p \in callers |-> NoLocals]
    /\ resp = NoResponse

Start(observed, callers) == StartWith(observed, callers, Limits, Windows)

\* One complete strategy.check(key, cfg_limit, cfg_window), no other call
\* running meanwhile.
Check(key, ds) ==
    LET now == clock
        ts == ReadTimes(now, ds)
    IN  /\ ts[4] <= MaxTime
        /\ \E r \in {StrategyCheck(TheBackend, key, cfg_limit, cfg_window, now, ts)} :
            /\ clock' = ts[4]
            /\ data' = r.b.data
            /\ sorted_sets' = r.b.sorted_sets
            /\ expiry' = r.b.expiry
            /\ last' = [op |-> "check", key |-> key, now |-> now, decision |-> Some(r.d),
                        prev |-> last.op]
            /\ hist' = [k \in DOMAIN hist |->
                            IF k = key THEN HistAfter(hist[k], r.d, now)
                            ELSE Live(hist[k], ts[4])]
        /\ UNCHANGED <<strategy, cfg_limit, cfg_window, tps, pc, loc, resp>>

\* One complete strategy.reset(key).
Reset(key) ==
    \E b \in {StrategyReset(TheBackend, key)} :
        /\ data' = b.data
        /\ sorted_sets' = b.sorted_sets
        /\ expiry' = b.expiry
        /\ last' = [op |-> "reset", key |-> key, now |-> clock, decision |-> None,
                    prev |-> last.op]
        /\ hist' = [k \in DOMAIN hist |-> IF k = key THEN <<>> ELSE hist[k]]
        /\ UNCHANGED <<strategy, cfg_limit, cfg_window, tps, clock, pc, loc, resp>>

\* The clock moves on by d ticks while no call is running.
Advance(d) ==
    /\ clock + d <= MaxTime
    /\ clock' = clock + d
    /\ hist' = [k \in DOMAIN hist |-> Live(hist[k], clock + d)]
    /\ UNCHANGED <<strategy, cfg_limit, cfg_window, tps, data, sorted_sets, expiry,
                   last, pc, loc, resp>>

\* --- one client key, calls one after another
Client == "k1"

Init == Start({Client}, {})

Next ==
    \/ \E ds \in Skews : Check(Client, ds)
    \/ Reset(Client)
    \/ Advance(1)

Spec == Init /\ [][Next]_vars

\* --- two client keys on one backend
Clients == {"k1", "k2"}

InitKeys == Start({}, {})

NextKeys ==
    \/ \E key \in Clients : Check(key, NoSkew)
    \/ \E key \in Clients : Reset(key)
    \/ Advance(Ticks(cfg_window))

SpecKeys == InitKeys /\ [][NextKeys]_vars

\* --- one client key, calls back to back at one instant
\* The key is fresh at the start and after every reset; the clock moves only
\* while it is fresh, so every check since then read the same clock value.
Fresh == last.op \in {"none", "reset"}

InitBurst == Start({Client}, {})

NextBurst ==
    \/ Check(Client, NoSkew)
    \/ Reset(Client)
    \/ Fresh /\ Advance(1)

SpecBurst == InitBurst /\ [][NextBurst]_vars

\* --- concurrent checks on one key
\* Each caller is one task running strategy.check(Client, cfg_limit,
\* cfg_window); a task gives way to the others at every awaited storage call,
\* and each storage call is one step on the store.
Procs == {"p1", "p2"}

InitConc == Start({}, Procs)

Goto(p, label, locals) ==
    /\ pc' = [pc EXCEPT ![p] = label]
    /\ loc' = [loc EXCEPT ![p] = locals]

Store(b) ==
    /\ data' = b.data
    /\ sorted_sets' = b.sorted_sets
    /\ expiry' = b.expiry

\* now = time.time(), the first statement of either check.
Begin(p) ==
    /\ pc[p] = "idle"
    /\ Goto(p, IF strategy = "tb" THEN "get" ELSE "zremrangebyscore",
            [NoLocals EXCEPT !.now = clock])
    /\ UNCHANGED <<strategy, cfg_limit, cfg_window, tps, clock, data, sorted_sets, expiry,
                   last, hist, resp>>

\* Token Bucket: state = await self._get_state(storage_key), and everything up
\* to the next await.
TBGet(p) ==
    /\ pc[p] = "get"
    /\ \E got \in {Get(TheBackend, StorageKey(TB_KEY_PREFIX, Client), clock)} :
       \E dec \in {TBDecide(got.ret, cfg_limit, cfg_window, loc[p].now)} :
          /\ Store(got.b)
          /\ IF dec.save /= None
             THEN Goto(p, "set", [loc[p] EXCEPT !.state = got.ret])
             ELSE Goto(p, "done", [loc[p] EXCEPT !.state = got.ret,
                                                 !.decision = Some(dec.d)])
    /\ UNCHANGED <<strategy, cfg_limit, cfg_window, tps, clock, last, hist, resp>>

\* Token Bucket: await self._save_state(...), then return ALLOWED.
TBSet(p) ==
    /\ pc[p] = "set"
    /\ \E dec \in {TBDecide(loc[p].state, cfg_limit, cfg_window, loc[p].now)} :
          /\ Store(SaveState(TheBackend, StorageKey(TB_KEY_PREFIX, Client),
                             TheValue(dec.save), cfg_window * 2, clock))
          /\ Goto(p, "done", [loc[p] EXCEPT !.decision = Some(dec.d)])
    /\ UNCHANGED <<strategy, cfg_limit, cfg_window, tps, clock, last, hist, resp>>

\* Sliding Window: await self._backend.zremrangebyscore(...).
SWZremrangebyscore(p) ==
    /\ pc[p] = "zremrangebyscore"
    /\ Store(Zremrangebyscore(TheBackend, StorageKey(SW_KEY_PREFIX, Client), MinScore,
                              loc[p].now - Ticks(cfg_window), clock).b)
    /\ Goto(p, "zcard", loc[p])
    /\ UNCHANGED <<strategy, cfg_limit, cfg_window, tps, clock, last, hist, resp>>

\* Sliding Window: request_count = await self._backend.zcard(storage_key), and
\* the comparison with the limit.
SWZcard(p) ==
    /\ pc[p] = "zcard"
    /\ \E counted \in {Zcard(TheBackend, StorageKey(SW_KEY_PREFIX, Client), clock)} :
          /\ Store(counted.b)
          /\ Goto(p, IF UnderLimit(counted.ret, cfg_limit) THEN "zadd" ELSE "zrange",
                  [loc[p] EXCEPT !.request_count = counted.ret])
    /\ UNCHANGED <<strategy, cfg_limit, cfg_window, tps, clock, last, hist, resp>>

\* Sliding Window: await self._backend.zadd(storage_key, now, f"{now}").
SWZadd(p) ==
    /\ pc[p] = "zadd"
    /\ Store(Zadd(TheBackend, StorageKey(SW_KEY_PREFIX, Client), loc[p].now,
                  FormatFloat(loc[p].now), clock))
    /\ Goto(p, "expire", loc[p])
    /\ UNCHANGED <<strategy, cfg_limit, cfg_window, tps, clock, last, hist, resp>>

\* Sliding Window: await self._backend.expire(...), then return ALLOWED.
SWExpire(p) ==
    /\ pc[p] = "expire"
    /\ Store(Expire(TheBackend, StorageKey(SW_KEY_PREFIX, Client), cfg_window, clock))
    /\ Goto(p, "done",
            [loc[p] EXCEPT !.decision = Some(SWAllowed(cfg_limit, loc[p].request_count,
                                                       cfg_window, loc[p].now))])
    /\ UNCHANGED <<strategy, cfg_limit, cfg_window, tps, clock, last, hist, resp>>

\* Sliding Window: retry_after = await self._calculate_retry_after(...), whose
\* one storage call is zrange, then return DENIED.
SWZrange(p) ==
    /\ pc[p] = "zrange"
    /\ \E retry \in {CalculateRetryAfter(TheBackend, StorageKey(SW_KEY_PREFIX, Client),
                                         cfg_window, loc[p].now, clock)} :
          /\ Store(retry.b)
          /\ Goto(p, "done",
                  [loc[p] EXCEPT !.decision = Some(SWDenied(cfg_limit, retry.ret,
                                                            loc[p].now))])
    /\ UNCHANGED <<strategy, cfg_limit, cfg_window, tps, clock, last, hist, resp>>

NextConc ==
    \/ \E p \in Procs : Begin(p)
    \/ \E p \in Procs : TBGet(p)
    \/ \E p \in Procs : TBSet(p)
    \/ \E p \in Procs : SWZremrangebyscore(p)
    \/ \E p \in Procs : SWZcard(p)
    \/ \E p \in Procs : SWZadd(p)
    \/ \E p \in Procs : SWExpire(p)
    \/ \E p \in Procs : SWZrange(p)
    \/ Advance(1)

SpecConc == InitConc /\ [][NextConc]_vars

\* --- QuotaManager
FREE == "free"
PREMIUM == "premium"
VIP == "vip"

Quota(limit, window) == [limit |-> limit, window |-> window]

TIER_CONFIG ==
    [tier \in {FREE, PREMIUM, VIP} |->
        IF tier = FREE THEN Quota(5, 60)
        ELSE IF tier = PREMIUM THEN Quota(50, 60)
        ELSE Quota(500, 60)]

\* Mutant of StartsWith: the prefix may stand anywhere in the text.
Contains(text, prefix) ==
    \E i \in 1..Len(text) :
        /\ i + Len(prefix) - 1 <= Len(text)
        /\ SubSeq(text, i, i + Len(prefix) - 1) = prefix

\* text.startswith(prefix), both as sequences of characters.
StartsWith(text, prefix) ==
    /\ Len(text) >= Len(prefix)
    /\ SubSeq(text, 1, Len(prefix)) = prefix

\* api_key: None or Some(characters); `not api_key` holds for both None and
\* the empty text.
ResolveTier(api_key) ==
    IF api_key = None \/ TheValue(api_key) = <<>> THEN FREE
    ELSE IF StartsWith(TheValue(api_key), <<"v", "i", "p", "_">>) THEN VIP
    ELSE IF StartsWith(TheValue(api_key), <<"p", "r", "e", "m", "_">>) THEN PREMIUM
    ELSE FREE

GetQuota(api_key) == TIER_CONFIG[ResolveTier(api_key)]

\* --- the middleware in front of a downstream handler
\* A request as dispatch sees it: the X-API-Key header as its characters, the
\* X-Forwarded-For header as its comma-separated parts, and the peer's host.
Request(api_key, forwarded, client) ==
    [api_key |-> api_key, forwarded |-> forwarded, client |-> client]

\* The requests of two clients, one of them seen through a proxy or directly.
Requests ==
    { Request(Some(<<"a">>), Some(<<"1.1.1.1">>), Some("2.2.2.2")),
      Request(Some(<<>>), Some(<<"1.1.1.1", " 3.3.3.3">>), Some("2.2.2.2")),
      Request(None, None, Some("1.1.1.1")) }

\* Every combination of an absent, empty or set X-API-Key, an absent, empty,
\* one-entry or two-entry X-Forwarded-For, and a known or unknown peer.
AllRequests ==
    { Request(api_key, forwarded, client) :
        api_key \in {None, Some(<<>>), Some(<<"a">>)},
        forwarded \in {None, Some(<<"">>), Some(<<"1.1.1.1">>), Some(<<"1.1.1.1", " 3.3.3.3">>)},
        client \in {None, Some("2.2.2.2")} }

\* A str is truthy unless it is empty; a header that is absent reads as None.
Truthy(header) == header /= None /\ TheValue(header) /= <<>>
TruthyList(header) == header /= None /\ TheValue(header) /= <<"">>

GetClientKeyForwardedFirst(request) ==
    IF TruthyList(request.forwarded) THEN <<"ip", TheValue(request.forwarded)[1]>>
    ELSE IF Truthy(request.api_key) THEN <<"api", TheValue(request.api_key)>>
    ELSE <<"ip", IF request.client /= None THEN TheValue(request.client) ELSE "unknown">>

GetClientKey(request) ==
    IF Truthy(request.api_key) THEN <<"api", TheValue(request.api_key)>>
    ELSE IF TruthyList(request.forwarded) THEN <<"ip", TheValue(request.forwarded)[1]>>
    ELSE <<"ip", IF request.client /= None THEN TheValue(request.client) ELSE "unknown">>

\* str(i) of an int: the decimal text, one text per int.
Str(i) == [text |-> i]

\* x or 1, for an Optional float x: None and 0.0 are falsy.
OrOne(x) == IF x = None \/ TheValue(x).n = 0 THEN FracOfInt(1) ELSE TheValue(x)

RateLimitHeaders(result) ==
    [h \in {"X-RateLimit-Limit", "X-RateLimit-Remaining", "X-RateLimit-Reset"} |->
        IF h = "X-RateLimit-Limit" THEN Str(result.limit)
        ELSE IF h = "X-RateLimit-Remaining" THEN Str(result.remaining)
        ELSE Str(PyInt(result.reset_at.n, result.reset_at.d))]

TooManyRequests == 429

\* The Retry-After header of a denial: str(int(result.retry_after or 1)).
RetryAfterHeader(retry_after) ==
    Str(PyInt(OrOne(retry_after).n, OrOne(retry_after).d))

\* What call_next can return: the downstream handler's response, a success or
\* an error of its own.
Downstream(status_code) ==
    [status_code |-> status_code, headers |-> Put(EmptyDict, "Content-Type", "json")]

DownstreamResponses == {Downstream(200), Downstream(500)}

\* The JSONResponse dispatch builds on DENIED; call_next is not called.
DeniedResponse(result) ==
    [outcome |-> "response", status_code |-> TooManyRequests,
     headers |-> Put(Put(RateLimitHeaders(result), "Retry-After",
                         RetryAfterHeader(result.retry_after)),
                     "Content-Type", "json"),
     forwarded |-> 0, downstream |-> None]

\* Mutant of AllowedResponse: the response is built anew with status 200.
AllowedResponseRebuilt(result, downstream) ==
    [outcome |-> "response", status_code |-> 200,
     headers |-> [h \in DOMAIN downstream.headers \cup DOMAIN RateLimitHeaders(result) |->
                     IF h \in DOMAIN RateLimitHeaders(result)
                     THEN RateLimitHeaders(result)[h] ELSE downstream.headers[h]],
     forwarded |-> 1, downstream |-> Some(downstream)]

\* On ALLOWED: response = await call_next(request), then the rate-limit
\* headers are set on it.
AllowedResponse(result, downstream) ==
    [outcome |-> "response", status_code |-> downstream.status_code,
     headers |-> [h \in DOMAIN downstream.headers \cup DOMAIN RateLimitHeaders(result) |->
                     IF h \in DOMAIN RateLimitHeaders(result)
                     THEN RateLimitHeaders(result)[h] ELSE downstream.headers[h]],
     forwarded |-> 1, downstream |-> Some(downstream)]

\* One complete dispatch(request, call_next).  storage_error: every call to
\* the store made while this request is handled raises; downstream: what
\* call_next returns if it is called.
Dispatch(request, storage_error, downstream) ==
    LET client_key == GetClientKey(request)
        now == clock
    IN  IF storage_error
        THEN \* the first storage call of check raises; nothing on the way up
             \* catches it, and dispatch ends with the exception
             /\ resp' = [outcome |-> "raised", status_code |-> 0, headers |-> EmptyDict,
                         forwarded |-> 0, downstream |-> None]
             /\ last' = [op |-> "raised", key |-> client_key, now |-> now,
                         decision |-> None, prev |-> last.op, request |-> request]
             /\ UNCHANGED <<strategy, cfg_limit, cfg_window, tps, clock, data, sorted_sets,
                            expiry, hist, pc, loc>>
        ELSE \E r \in {StrategyCheck(TheBackend, client_key, cfg_limit, cfg_window, now,
                                     ReadTimes(now, NoSkew))} :
             /\ Store(r.b)
             /\ last' = [op |-> "check", key |-> client_key, now |-> now,
                         decision |-> Some(r.d), prev |-> last.op, request |-> request]
             /\ resp' = IF r.d.status = DENIED THEN DeniedResponse(r.d)
                        ELSE AllowedResponse(r.d, downstream)
             /\ UNCHANGED <<strategy, cfg_limit, cfg_window, tps, clock, hist, pc, loc>>

InitHttp == Start({}, {})

NextHttp ==
    \/ \E request \in Requests : \E storage_error \in BOOLEAN :
       \E downstream \in DownstreamResponses :
           Dispatch(request, storage_error, downstream)
    \/ Advance(Ticks(1))

SpecHttp == InitHttp /\ [][NextHttp]_vars

\* --- the middleware under every shape of request, at one instant, with a
\* store that answers and in front of a handler that answers 200
InitIdentity == Start({}, {})

NextIdentity ==
    \E request \in AllRequests : Dispatch(request, FALSE, Downstream(200))

SpecIdentity == InitIdentity /\ [][NextIdentity]_vars

\* --- the middleware configured with the free tier's quota, in front of
\* clients of every tier, and the quota manager the application builds next
\* to it (main.py); all at one instant
VipKey == <<"v", "i", "p", "_", "a">>
PremKey == <<"p", "r", "e", "m", "_", "a">>
OtherKey == <<"a">>

TierRequests ==
    { Request(api_key, None, Some("2.2.2.2")) :
        api_key \in {None, Some(VipKey), Some(PremKey)} }

\* The credentials get_quota is asked about: none, empty, the two prefixes
\* alone and followed by more, and texts that hold a prefix's letters
\* elsewhere or in part.
Credentials ==
    { None, Some(<<>>), Some(VipKey), Some(PremKey), Some(OtherKey),
      Some(<<"v", "i", "p", "_">>), Some(<<"p", "r", "e", "m", "_">>),
      Some(<<"v", "i", "p">>), Some(<<"p", "r", "e", "m">>),
      Some(<<"a", "v", "i", "p", "_">>), Some(<<"V", "i", "p", "_", "a">>) }

\* One call quota_manager.get_quota(api_key); the manager holds no state and
\* calls nothing.
GetQuotaCall(api_key) ==
    /\ last' = [op |-> "get_quota", key |-> api_key, now |-> clock, decision |-> None,
                prev |-> last.op, tier |-> ResolveTier(api_key),
                quota |-> GetQuota(api_key)]
    /\ UNCHANGED <<strategy, cfg_limit, cfg_window, tps, clock, data, sorted_sets,
                   expiry, hist, pc, loc, resp>>

InitTier ==
    StartWith({}, {}, {TIER_CONFIG[FREE].limit}, {TIER_CONFIG[FREE].window})

NextTier ==
    \/ \E request \in TierRequests : Dispatch(request, FALSE, Downstream(200))
    \/ \E api_key \in Credentials : GetQuotaCall(api_key)

SpecTier == InitTier /\ [][NextTier]_vars

\* --- one client key, under a clock that can also be set back between calls
\* time.time() follows the system clock, which an adjustment can move back by
\* d ticks.
Regress(d) ==
    /\ clock >= d
    /\ clock' = clock - d
    /\ UNCHANGED <<strategy, cfg_limit, cfg_window, tps, data, sorted_sets, expiry,
                   last, hist, pc, loc, resp>>

InitRegress == Start({}, {})

NextRegress ==
    \/ Check(Client, NoSkew)
    \/ Reset(Client)
    \/ Advance(1)
    \/ Regress(1)

SpecRegress == InitRegress /\ [][NextRegress]_vars

\* --- one client key, with checks that may be cancelled between two awaited
\* storage calls
\* The store after the first `calls` storage calls of TBCheck.
TBCheckPrefix(b, key, limit, window_seconds, now, ts, calls) ==
    IF calls = 0 THEN b ELSE Get(b, StorageKey(TB_KEY_PREFIX, key), ts[1]).b

\* The storage calls a whole TBCheck makes: get, and set when it allows.
TBCheckCalls(b, key, limit, window_seconds, now, ts) ==
    IF TBDecide(Get(b, StorageKey(TB_KEY_PREFIX, key), ts[1]).ret, limit, window_seconds,
                now).save /= None
    THEN 2 ELSE 1

\* The store after the first `calls` storage calls of SWCheck.
SWCheckPrefix(b, key, limit, window_seconds, now, ts, calls) ==
    LET storage_key == StorageKey(SW_KEY_PREFIX, key)
        evicted == Zremrangebyscore(b, storage_key, MinScore,
                                    now - Ticks(window_seconds), ts[1])
        counted == Zcard(evicted.b, storage_key, ts[2])
    IN  IF calls = 0 THEN b
        ELSE IF calls = 1 THEN evicted.b
        ELSE IF calls = 2 THEN counted.b
        ELSE Zadd(counted.b, storage_key, now, FormatFloat(now), ts[3])

\* The storage calls a whole SWCheck makes: zremrangebyscore, zcard, then zadd
\* and expire when it allows, zrange when it denies.
SWCheckCalls(b, key, limit, window_seconds, now, ts) ==
    LET storage_key == StorageKey(SW_KEY_PREFIX, key)
        evicted == Zremrangebyscore(b, storage_key, MinScore,
                                    now - Ticks(window_seconds), ts[1])
        counted == Zcard(evicted.b, storage_key, ts[2])
    IN  IF UnderLimit(counted.ret, limit) THEN 4 ELSE 3

\* One strategy.check(key, cfg_limit, cfg_window) cancelled while it awaits
\* storage call number calls + 1, which is never made.
Abandon(key, calls) ==
    LET now == clock
        ts == ReadTimes(now, NoSkew)
        total == IF strategy = "tb"
                 THEN TBCheckCalls(TheBackend, key, cfg_limit, cfg_window, now, ts)
                 ELSE SWCheckCalls(TheBackend, key, cfg_limit, cfg_window, now, ts)
    IN  /\ calls < total
        /\ \E b \in {IF strategy = "tb"
                      THEN TBCheckPrefix(TheBackend, key, cfg_limit, cfg_window, now, ts, calls)
                      ELSE SWCheckPrefix(TheBackend, key, cfg_limit, cfg_window, now, ts,
                                         calls)} :
            /\ data' = b.data
            /\ sorted_sets' = b.sorted_sets
            /\ expiry' = b.expiry
        /\ last' = [op |-> "cancelled", key |-> key, now |-> now, decision |-> None,
                    prev |-> last.op, calls |-> calls]
        /\ UNCHANGED <<strategy, cfg_limit, cfg_window, tps, clock, hist, pc, loc, resp>>

InitCancel == Start({Client}, {})

NextCancel ==
    \/ Check(Client, NoSkew)
    \/ \E calls \in 0..3 : Abandon(Client, calls)
    \/ Advance(1)

SpecCancel == InitCancel /\ [][NextCancel]_vars

\* --- one client key, under a limit or a window that may be zero or negative
BadInputs == {-1, 0, 1}

InitBadInput == StartWith({Client}, {}, BadInputs, BadInputs)

SpecBadInput == InitBadInput /\ [][Next]_vars

\* --- the in-memory store called directly, one call at a time
StoreKey == "k"
StoreValue == [v |-> 1]
StoreTtl == 1
StoreScores == {0, 1}
StoreMembers == {"a", "b"}

\* The store after one call, with what the call returned.
Called(op, key, b, ret) ==
    /\ data' = b.data
    /\ sorted_sets' = b.sorted_sets
    /\ expiry' = b.expiry
    /\ last' = [op |-> op, key |-> key, now |-> clock, decision |-> None,
                prev |-> last.op, ret |-> ret]
    /\ UNCHANGED <<strategy, cfg_limit, cfg_window, tps, clock, hist, pc, loc, resp>>

CallGet(key) ==
    \E r \in {Get(TheBackend, key, clock)} : Called("get", key, r.b, r.ret)

CallSet(key, value, ttl) ==
    Called("set", key, Set(TheBackend, key, value, ttl, clock), None)

CallDelete(key) ==
    Called("delete", key, Delete(TheBackend, key), None)

CallZadd(key, score, member) ==
    Called("zadd", key, Zadd(TheBackend, key, score, member, clock), None)

CallZremrangebyscore(key, min_score, max_score) ==
    \E r \in {Zremrangebyscore(TheBackend, key, min_score, max_score, clock)} :
        Called("zremrangebyscore", key, r.b, r.ret)

CallZcard(key) ==
    \E r \in {Zcard(TheBackend, key, clock)} : Called("zcard", key, r.b, r.ret)

CallZrange(key, start, stop) ==
    \E r \in {Zrange(TheBackend, key, start, stop, clock)} :
        Called("zrange", key, r.b, r.ret)

CallExpire(key, seconds) ==
    Called("expire", key, Expire(TheBackend, key, seconds, clock), None)

\* No strategy is in front of the store; the strategy fields are held fixed.
InitStore == StartWith({}, {}, {1}, {1}) /\ strategy = "tb"

NextStore ==
    \/ CallGet(StoreKey)
    \/ CallSet(StoreKey, StoreValue, StoreTtl)
    \/ CallDelete(StoreKey)
    \/ \E score \in StoreScores : \E member \in StoreMembers :
           CallZadd(StoreKey, score, member)
    \/ \E max_score \in StoreScores : CallZremrangebyscore(StoreKey, MinScore, max_score)
    \/ CallZcard(StoreKey)
    \/ \E stop \in {0, -1} : CallZrange(StoreKey, 0, stop)
    \/ CallExpire(StoreKey, StoreTtl)
    \/ Advance(Ticks(1))

SpecStore == InitStore /\ [][NextStore]_vars

\* --- the sorted-set calls of the in-memory store, over wider arguments
ZsetScores == {0, 1, 2}
ZsetIndices == {-4, -3, -2, -1, 0, 1, 2, 3}

NextZset ==
    \/ \E score \in ZsetScores : \E member \in StoreMembers :
           CallZadd(StoreKey, score, member)
    \/ \E min_score \in ZsetScores : \E max_score \in ZsetScores :
           CallZremrangebyscore(StoreKey, min_score, max_score)
    \/ CallZcard(StoreKey)
    \/ \E start \in ZsetIndices : \E stop \in ZsetIndices :
           CallZrange(StoreKey, start, stop)
    \/ CallDelete(StoreKey)
    \/ CallExpire(StoreKey, StoreTtl)
    \/ Advance(Ticks(1))

SpecZset == InitStore /\ [][NextZset]_vars

\* --- both strategies with the rounding of float arithmetic
\* time.time(), limit / window_seconds, elapsed * refill_rate, now -
\* window_seconds and the other results are Python floats: each is rounded to
\* the nearest value with a fixed number of significant bits, ties to the even
\* mantissa.  The mantissa is MantissaBits wide, a tick is one second, and the
\* clock only shows values a float can hold.
MantissaBits == 6
FloatMaxTime == 66
FloatWindows == {2, 13, 56}

Pow2(k) == IF k <= 0 THEN 1 ELSE 2 ^ k

\* n/d without the factors of two that n and d share.
RECURSIVE ReduceTwos(_, _)
ReduceTwos(n, d) ==
    IF n /= 0 /\ n % 2 = 0 /\ d % 2 = 0 THEN ReduceTwos(n \div 2, d \div 2) ELSE Frac(n, d)

\* The exponent k for which 2^(MantissaBits - 1) <= (n / d) / 2^k < 2^MantissaBits.
RECURSIVE Exponent(_, _, _)
Exponent(n, d, k) ==
    IF n >= Pow2(MantissaBits) * d THEN Exponent(n, 2 * d, k + 1)
    ELSE IF n < Pow2(MantissaBits - 1) * d THEN Exponent(2 * n, d, k - 1)
    ELSE k

\* The float nearest to the fraction x >= 0: m * 2^k with
\* 2^(MantissaBits - 1) <= m < 2^MantissaBits; a whole number below
\* 2^MantissaBits is a float already.
FloatMagnitude(x) ==
    IF x.n = 0 THEN Frac(0, 1)
    ELSE IF x.d = 1 /\ x.n < Pow2(MantissaBits) THEN x
    ELSE LET k == Exponent(x.n, x.d, 0)
             num == IF k < 0 THEN x.n * Pow2(-k) ELSE x.n
             den == IF k > 0 THEN x.d * Pow2(k) ELSE x.d
             q == num \div den
             r == num % den
             m == IF 2 * r > den \/ (2 * r = den /\ q % 2 = 1) THEN q + 1 ELSE q
         IN  ReduceTwos(IF k > 0 THEN m * Pow2(k) ELSE m, IF k < 0 THEN Pow2(-k) ELSE 1)

FloatFrac(x) ==
    IF x.n < 0 THEN LET m == FloatMagnitude(Frac(-x.n, x.d)) IN Frac(-m.n, m.d)
    ELSE FloatMagnitude(x)

\* The float nearest to the whole number of seconds v.
Float(v) == FloatFrac(Frac(v, 1)).n

\* a + b, a - b, a * b and a / b of two floats, rounded.
FloatAdd(a, b) == FloatFrac(FracAdd(a, b))
FloatSub(a, b) == FloatFrac(Frac(a.n * b.d - b.n * a.d, a.d * b.d))
FloatMul(a, b) == FloatFrac(Frac(a.n * b.n, a.d * b.d))
FloatDiv(a, b) == FloatFrac(Frac(a.n * b.d, a.d * b.n))

\* Mutant of SetFloat: the value is stored and the deadline is left as it was.
SetFloatWithoutTtl(b, key, value, ttl, t) ==
    Backend(Put(b.data, key, value), b.sorted_sets, b.expiry)

SetFloat(b, key, value, ttl, t) ==
    Backend(Put(b.data, key, value), b.sorted_sets, Put(b.expiry, key, Float(t + Ticks(ttl))))

ExpireFloat(b, key, seconds, t) ==
    IF key \in DOMAIN b.data \/ key \in DOMAIN b.sorted_sets
    THEN Backend(b.data, b.sorted_sets, Put(b.expiry, key, Float(t + Ticks(seconds))))
    ELSE b

\* Token counts are floats here, held as fractions of a token.
TBCheckFloat(b, key, limit, window_seconds, now) ==
    LET storage_key == StorageKey(TB_KEY_PREFIX, key)
        refill_rate == FloatFrac(Frac(limit, window_seconds))
        got == Get(b, storage_key, now)
        state == got.ret
        current_tokens ==
            IF state = None THEN FracOfInt(limit)
            ELSE LET elapsed == FloatSub(FracOfInt(now), TheValue(state).last_refill)
                     tokens_to_add == FloatMul(elapsed, refill_rate)
                     refilled == FloatAdd(TheValue(state).tokens, tokens_to_add)
                 IN  IF FracLeq(FracOfInt(limit), refilled) THEN FracOfInt(limit)
                     ELSE refilled
    IN  IF FracLeq(FracOfInt(1), current_tokens)
        THEN LET new_tokens == FloatSub(current_tokens, FracOfInt(1))
             IN  [b |-> SetFloat(got.b, storage_key,
                                 BucketState(new_tokens, FracOfInt(now)),
                                 window_seconds * 2, now),
                  d |-> Decision(ALLOWED, limit, PyInt(new_tokens.n, new_tokens.d),
                                 FracOfInt(Float(now + window_seconds)), None)]
        ELSE LET tokens_needed == FloatSub(FracOfInt(1), current_tokens)
                 retry_after == FloatDiv(tokens_needed, refill_rate)
             IN  [b |-> got.b,
                  d |-> Decision(DENIED, limit, 0,
                                 FloatAdd(FracOfInt(now), retry_after), Some(retry_after))]

CalculateRetryAfterFloat(b, storage_key, window_seconds, now, t) ==
    LET oldest_timestamps == Zrange(b, storage_key, 0, 0, t)
    IN  [b |-> oldest_timestamps.b,
         ret |-> IF oldest_timestamps.ret /= <<>>
                 THEN LET oldest == ParseFloat(oldest_timestamps.ret[1])
                          retry_after ==
                              FracOfInt(Float(Float(oldest + window_seconds) - now))
                      IN  IF FracLess(RetryFloor, retry_after) THEN retry_after
                          ELSE RetryFloor
                 ELSE FracOfInt(window_seconds)]

SWCheckFloat(b, key, limit, window_seconds, now) ==
    LET storage_key == StorageKey(SW_KEY_PREFIX, key)
        window_start == Float(now - window_seconds)
        evicted == Zremrangebyscore(b, storage_key, MinScore, window_start, now)
        counted == Zcard(evicted.b, storage_key, now)
        request_count == counted.ret
    IN  IF UnderLimit(request_count, limit)
        THEN LET timestamp_str == FormatFloat(now)
                 added == Zadd(counted.b, storage_key, now, timestamp_str, now)
             IN  [b |-> ExpireFloat(added, storage_key, window_seconds, now),
                  d |-> Decision(ALLOWED, limit, limit - request_count - 1,
                                 FracOfInt(Float(now + window_seconds)), None)]
        ELSE LET retry == CalculateRetryAfterFloat(counted.b, storage_key, window_seconds,
                                                   now, now)
             IN  [b |-> retry.b,
                  d |-> Decision(DENIED, limit, 0,
                                 FloatAdd(FracOfInt(now), retry.ret), Some(retry.ret))]

StrategyCheckFloat(b, key, limit, window_seconds, now) ==
    IF strategy = "tb" THEN TBCheckFloat(b, key, limit, window_seconds, now)
    ELSE SWCheckFloat(b, key, limit, window_seconds, now)

\* One complete check; every clock reading of the call returns the same value.
CheckFloat(key) ==
    \E r \in {StrategyCheckFloat(TheBackend, key, cfg_limit, cfg_window, clock)} :
        /\ data' = r.b.data
        /\ sorted_sets' = r.b.sorted_sets
        /\ expiry' = r.b.expiry
        /\ last' = [op |-> "check", key |-> key, now |-> clock, decision |-> Some(r.d),
                    prev |-> last.op]
        /\ hist' = [k \in DOMAIN hist |->
                        IF k = key THEN HistAfter(hist[k], r.d, clock) ELSE hist[k]]
        /\ UNCHANGED <<strategy, cfg_limit, cfg_window, tps, clock, pc, loc, resp>>

\* The clock moves on to the next value a float can hold.
RECURSIVE FirstFloatFrom(_)
FirstFloatFrom(t) == IF Float(t) = t THEN t ELSE FirstFloatFrom(t + 1)

AdvanceFloat ==
    /\ FirstFloatFrom(clock + 1) <= FloatMaxTime
    /\ clock' = FirstFloatFrom(clock + 1)
    /\ hist' = [k \in DOMAIN hist |-> Live(hist[k], FirstFloatFrom(clock + 1))]
    /\ UNCHANGED <<strategy, cfg_limit, cfg_window, tps, data, sorted_sets, expiry,
                   last, pc, loc, resp>>

InitFloat ==
    /\ strategy \in {"tb", "sw"}
    /\ cfg_limit = 1
    /\ cfg_window \in FloatWindows
    /\ tps = 1
    /\ clock = 0
    /\ data = EmptyDict
    /\ sorted_sets = EmptyDict
    /\ expiry = EmptyDict
    /\ last = NoCall
    /\ hist = [k \in {Client} |-> <<>>]
    /\ pc = EmptyDict
    /\ loc = EmptyDict
    /\ resp = NoResponse

NextFloat ==
    \/ CheckFloat(Client)
    \/ AdvanceFloat

SpecFloat == InitFloat /\ [][NextFloat]_vars

\* ============================================================== claims
LastDecision == TheValue(last.decision)
Checked == last.op = "check"
Entries(key) ==
    IF StorageKey(SW_KEY_PREFIX, key) \in DOMAIN sorted_sets
    THEN sorted_sets[StorageKey(SW_KEY_PREFIX, key)] ELSE <<>>

\* C1: Sliding Window admits at most limit requests in any half-open interval
\* of length window: after every check, the ALLOWED decisions with timestamps
\* in (now - window, now] number at most limit.
C1_SlidingWindowExactLimit ==
    strategy = "sw" => Len(hist[Client]) <= cfg_limit

\* C2: Token Bucket admits at most 2 * limit - 1 requests in any half-open
\* interval of length window.
C2_TokenBucketBurstBound ==
    strategy = "tb" => Len(hist[Client]) <= 2 * cfg_limit - 1

C2_Witness ==
    /\ strategy = "tb"
    /\ cfg_limit >= 2
    /\ Len(hist[Client]) = 2 * cfg_limit - 1
    /\ hist[Client][1] < hist[Client][Len(hist[Client])]

\* C6: every decision has 0 <= remaining <= limit and echoes the limit that
\* was passed in.
C6_RemainingWithinLimit ==
    Checked => /\ 0 <= LastDecision.remaining
               /\ LastDecision.remaining <= cfg_limit
               /\ LastDecision.limit = cfg_limit

C6_Witness ==
    /\ Checked
    /\ strategy = "sw"
    /\ cfg_limit = MaxLimit
    /\ LastDecision.status = ALLOWED
    /\ LastDecision.remaining = 0
    /\ Len(Entries(Client)) = cfg_limit

\* C7: every decision's reset_at is strictly later than the clock value its
\* check read.
C7_ResetAtInFuture ==
    Checked => FracLess(Seconds(last.now), LastDecision.reset_at)

C7_Witness ==
    /\ Checked
    /\ strategy = "tb"
    /\ LastDecision.status = DENIED
    /\ last.now > 0
    /\ FracLess(TheValue(LastDecision.retry_after), FracOfInt(1))

\* C8: retry_after is present exactly on DENIED decisions, and a DENIED
\* decision has remaining = 0 and retry_after > 0.
C8_DeniedShape ==
    Checked =>
        /\ (LastDecision.retry_after /= None) <=> (LastDecision.status = DENIED)
        /\ LastDecision.status = DENIED =>
               /\ LastDecision.remaining = 0
               /\ FracLess(FracOfInt(0), TheValue(LastDecision.retry_after))

C8_Witness ==
    /\ Checked
    /\ strategy = "sw"
    /\ LastDecision.status = DENIED
    /\ LastDecision.retry_after /= None
    /\ FracLess(TheValue(LastDecision.retry_after), FracOfInt(cfg_window))

\* C10: a check that directly follows reset of the same key is ALLOWED with
\* remaining = limit - 1, whatever the key held before the reset.
C10_ResetThenCheck ==
    (Checked /\ last.prev = "reset") =>
        /\ LastDecision.status = ALLOWED
        /\ LastDecision.remaining = cfg_limit - 1

C10_Witness ==
    /\ Checked
    /\ last.prev = "reset"
    /\ cfg_limit = MaxLimit
    /\ last.now > 0
    /\ LastDecision.status = ALLOWED
    /\ LastDecision.remaining = cfg_limit - 1

\* C9: a check or a reset on one key leaves what the backend holds for every
\* other key (value, sorted set, expiry deadline) unchanged, and with it the
\* decision the other key's next check gets.
StoredAt(storage_key) ==
    <<IF storage_key \in DOMAIN data THEN Some(data[storage_key]) ELSE None,
      IF storage_key \in DOMAIN sorted_sets THEN Some(sorted_sets[storage_key]) ELSE None,
      IF storage_key \in DOMAIN expiry THEN Some(expiry[storage_key]) ELSE None>>

StoredFor(key) == StoredAt(StorageKey(Prefix, key))

DecisionOn(b, key, t) ==
    StrategyCheck(b, key, cfg_limit, cfg_window, t, ReadTimes(t, NoSkew)).d

NextDecisionFor(key) == DecisionOn(TheBackend, key, clock)

C9_KeyIsolation ==
    [][\A k1 \in Clients :
          (Check(k1, NoSkew) \/ Reset(k1)) =>
              \A k2 \in Clients \ {k1} :
                  /\ StoredFor(k2)' = StoredFor(k2)
                  /\ \E after \in {Backend(data', sorted_sets', expiry')} :
                         DecisionOn(after, k2, clock') = NextDecisionFor(k2)]_vars

C9_Witness ==
    /\ last.op = "reset"
    /\ last.prev = "check"
    /\ last.key = "k1"
    /\ StoredFor("k1") = <<None, None, None>>
    /\ StoredFor("k2") /= <<None, None, None>>
    /\ NextDecisionFor("k2").status = DENIED

\* C3: concurrent Token Bucket checks on one key, each storage call one atomic
\* step, return the decisions of some serial order of the calls and leave the
\* bucket that order leaves; with one token and no time elapsing, at most one
\* of them is ALLOWED.
AllDone == \A p \in Procs : pc[p] = "done"
SerialOrders == {o \in [1..2 -> Procs] : o[1] /= o[2]}
FreshBackend == Backend(EmptyDict, EmptyDict, EmptyDict)
CallAt(b, now) ==
    StrategyCheck(b, Client, cfg_limit, cfg_window, now, ReadTimes(now, NoSkew))
IsSerial(o) ==
    \E first \in {CallAt(FreshBackend, loc[o[1]].now)} :
    \E second \in {CallAt(first.b, loc[o[2]].now)} :
        /\ loc[o[1]].decision = Some(first.d)
        /\ loc[o[2]].decision = Some(second.d)
        /\ data = second.b.data
        /\ sorted_sets = second.b.sorted_sets
AllowedProcs == {p \in Procs : TheValue(loc[p].decision).status = ALLOWED}

C3_TokenBucketSerializable ==
    (strategy = "tb" /\ AllDone) =>
        /\ \E o \in SerialOrders : IsSerial(o)
        /\ (cfg_limit = 1 /\ \A p, q \in Procs : loc[p].now = loc[q].now) =>
               Cardinality(AllowedProcs) <= 1

\* C4: concurrent Sliding Window checks on one key, each storage call one
\* atomic step, never leave more than limit entries in the window and return
\* the decisions of some serial order; with limit - 1 entries in the window,
\* at most one of two concurrent calls is ALLOWED.
C4_SlidingWindowSerializable ==
    strategy = "sw" =>
        /\ Len(Entries(Client)) <= cfg_limit
        /\ AllDone =>
               /\ \E o \in SerialOrders : IsSerial(o)
               /\ cfg_limit = 1 => Cardinality(AllowedProcs) <= 1

\* C5: when the store raises while a request is handled, dispatch forwards
\* the request downstream exactly once and returns the downstream response
\* as it is: no rate-limit header, no 429, no error.
C5_FailOpen ==
    last.op = "raised" =>
        /\ resp.outcome = "response"
        /\ resp.forwarded = 1
        /\ resp.downstream /= None
        /\ resp.status_code = TheValue(resp.downstream).status_code
        /\ resp.headers = TheValue(resp.downstream).headers

\* C11: on a fresh key, limit + 1 Sliding Window checks at one instant give
\* ALLOWED limit times with remaining limit - 1, ..., 0 in that order, then
\* DENIED with remaining 0 and retry_after <= window.  hist[Client] holds the
\* ALLOWED decisions since the key was fresh: the i-th ALLOWED must have
\* remaining limit - i, and a DENIED must come only after limit of them.
C11_SlidingWindowBackToBack ==
    (strategy = "sw" /\ Checked) =>
        /\ Len(hist[Client]) <= cfg_limit
        /\ LastDecision.status = ALLOWED =>
               LastDecision.remaining = cfg_limit - Len(hist[Client])
        /\ LastDecision.status = DENIED =>
               /\ Len(hist[Client]) = cfg_limit
               /\ LastDecision.remaining = 0
               /\ FracLeq(TheValue(LastDecision.retry_after), FracOfInt(cfg_window))

InWindow(entries, t) == SelectSeq(entries, LAMBDA e : e.score > t - Ticks(cfg_window))
Holds(entries, e) == \E i \in 1..Len(entries) : entries[i] = e

C13_SlidingWindowEviction ==
    [][(strategy = "sw" /\ \E ds \in Skews : Check(Client, ds)) =>
          /\ (TheValue(last'.decision).status = DENIED)
                 <=> (Len(Live(hist[Client], clock)) >= cfg_limit)
          /\ \A i \in 1..Len(InWindow(Entries(Client), clock)) :
                 Holds(Entries(Client)', InWindow(Entries(Client), clock)[i])]_vars

\* C14: a Token Bucket check at time t on a bucket stored with (tokens,
\* last_refill) decides on tokens2 = min(limit, tokens + (t - last_refill) *
\* limit / window): it is ALLOWED exactly when tokens2 >= 1, and then stores
\* (tokens2 - 1, t) and returns remaining = floor(tokens2 - 1).  An emptied
\* bucket allows the next request once window / limit seconds have passed and
\* denies the one made right after it.
Bucket == data[StorageKey(TB_KEY_PREFIX, Client)]
LazyTokens(t) ==
    Min(cfg_limit * TokenScale,
        Bucket.tokens + ((t - Bucket.last_refill) * cfg_limit * TokenScale)
                            \div (cfg_window * tps))

\* Written as "the refill rule held, or the step was not a check", which is
\* the implication from "the step was a check" with the cheaper side first.
C14_TokenBucketLazyRefill ==
    [][(/\ strategy = "tb"
        /\ StorageKey(TB_KEY_PREFIX, Client) \in DOMAIN data
        /\ last'.op = "check") =>
          \/ /\ (TheValue(last'.decision).status = ALLOWED) <=> (LazyTokens(clock) >= TokenScale)
             /\ TheValue(last'.decision).status = ALLOWED =>
                    /\ Bucket' = [tokens |-> LazyTokens(clock) - TokenScale,
                                  last_refill |-> clock]
                    /\ TheValue(last'.decision).remaining
                           = (LazyTokens(clock) - TokenScale) \div TokenScale
             /\ (Bucket.tokens = 0 /\ (clock - Bucket.last_refill) * cfg_limit >= Ticks(cfg_window)) =>
                    TheValue(last'.decision).status = ALLOWED
             /\ (Bucket.tokens < TokenScale /\ clock = Bucket.last_refill) =>
                    TheValue(last'.decision).status = DENIED
          \/ ~ \E ds \in Skews : ReadTimes(clock, ds)[4] = clock' /\ Check(Client, ds)]_vars

C14_Witness ==
    /\ strategy = "tb"
    /\ Checked
    /\ last.prev = "check"
    /\ LastDecision.status = ALLOWED
    /\ Len(hist[Client]) > cfg_limit
    /\ Bucket.tokens < TokenScale
    /\ Bucket.tokens > 0

\* C15: of two DENIED decisions on one key at times t0 < t1 with no ALLOWED
\* decision and no reset between them, the later has the strictly smaller
\* retry_after, whenever the earlier one is above the 0.1 s floor.  Stated for
\* two DENIED checks that follow one another.
C15_RetryAfterDecreases ==
    [][(/\ Checked
        /\ LastDecision.status = DENIED
        /\ FracLess(RetryFloor, TheValue(LastDecision.retry_after))
        /\ last.now < clock
        /\ \E ds \in Skews : Check(Client, ds)
        /\ TheValue(last'.decision).status = DENIED) =>
          FracLess(TheValue(TheValue(last'.decision).retry_after),
                   TheValue(LastDecision.retry_after))]_vars

\* C16: every DENIED decision of either strategy has retry_after <= window.
C16_RetryAfterWithinWindow ==
    (Checked /\ LastDecision.status = DENIED) =>
        FracLeq(TheValue(LastDecision.retry_after), FracOfInt(cfg_window))

C16_Witness ==
    /\ Checked
    /\ LastDecision.status = DENIED
    /\ last.now > 0
    /\ cfg_window = MaxWindow
    /\ TheValue(LastDecision.retry_after).n
           = cfg_window * TheValue(LastDecision.retry_after).d

\* C17: for each strategy and every decision returned at time t, remaining
\* plus the number of ALLOWED decisions on the key with timestamp in
\* (t - window, t], this one included, is at most limit.
C17_RemainingPlusConsumed ==
    Checked => LastDecision.remaining + Len(hist[Client]) <= cfg_limit

C19_RetryAfterHeaderCeil ==
    (last.op = "check" /\ resp.outcome = "response"
        /\ LastDecision.status = DENIED /\ LastDecision.retry_after /= None) =>
        LET retry_after == TheValue(LastDecision.retry_after)
            ceil == -((-retry_after.n) \div retry_after.d)
        IN  /\ "Retry-After" \in DOMAIN resp.headers
            /\ resp.headers["Retry-After"] = Str(Max(1, ceil))

\* The identity the precedence rule names for a request, where has(h) says
\* when a header counts as present: the API key, else the first entry of
\* X-Forwarded-For, else the peer address, else "unknown".
Precedence(request, has(_, _)) ==
    IF has(request.api_key, <<>>) THEN <<"api", TheValue(request.api_key)>>
    ELSE IF has(request.forwarded, <<"">>) THEN <<"ip", TheValue(request.forwarded)[1]>>
    ELSE IF request.client /= None THEN <<"ip", TheValue(request.client)>>
    ELSE <<"ip", "unknown">>

Sent(header, empty) == header /= None
SentNonEmpty(header, empty) == header /= None /\ TheValue(header) /= empty

\* C20: for every combination of present and absent X-API-Key,
\* X-Forwarded-For and peer address, the identity handed to the strategy is
\* 'api:'+key if the API key header is present, else 'ip:'+first entry of
\* X-Forwarded-For if that header is present, else 'ip:'+peer address if
\* known, else 'ip:unknown'.
C20_IdentityPrecedence ==
    last.op = "check" => last.key = Precedence(last.request, Sent)

\* C20 restated: the same precedence, where a header counts as present when
\* it was sent with a non-empty value; the identity never depends on a
\* lower-precedence source when a higher one is present in that sense.
C20_IdentityPrecedenceNonEmpty ==
    last.op = "check" =>
        LET request == last.request
        IN  /\ last.key = Precedence(request, SentNonEmpty)
            /\ \A other \in AllRequests :
                   (SentNonEmpty(request.api_key, <<>>) /\ other.api_key = request.api_key)
                       => GetClientKey(other) = last.key
            /\ \A other \in AllRequests :
                   (/\ ~SentNonEmpty(request.api_key, <<>>)
                    /\ ~SentNonEmpty(other.api_key, <<>>)
                    /\ SentNonEmpty(request.forwarded, <<"">>)
                    /\ other.forwarded = request.forwarded)
                       => GetClientKey(other) = last.key

\* The client sent an empty X-API-Key and a two-entry X-Forwarded-For from a
\* known peer, and was counted under the first forwarded entry, after
\* requests counted under an API key, a peer address and no address at all.
C20_Witness ==
    /\ last.op = "check"
    /\ last.request = Request(Some(<<>>), Some(<<"1.1.1.1", " 3.3.3.3">>), Some("2.2.2.2"))
    /\ last.key = <<"ip", "1.1.1.1">>
    /\ \A k \in {<<"api", <<"a">>>>, <<"ip", "2.2.2.2">>, <<"ip", "unknown">>} :
           StoredFor(k) /= <<None, None, None>>

\* C21: each request is rate-limited with the quota of its client's tier:
\* the limit and window handed to strategy.check, and so the decision's limit,
\* the X-RateLimit-Limit header and an ALLOWED decision's reset_at = now +
\* window, are those get_quota gives for the request's credential.
C21_TierQuotaApplied ==
    (last.op = "check" /\ resp.outcome = "response") =>
        LET quota == GetQuota(last.request.api_key)
        IN  /\ LastDecision.limit = quota.limit
            /\ resp.headers["X-RateLimit-Limit"] = Str(quota.limit)
            /\ LastDecision.status = ALLOWED =>
                   LastDecision.reset_at.n * tps
                       = (last.now + Ticks(quota.window)) * LastDecision.reset_at.d

\* C22: every response returned after a decision, the 429 as well as the
\* forwarded one, carries X-RateLimit-Limit, X-RateLimit-Remaining,
\* X-RateLimit-Reset (reset_at cut to whole seconds) and X-User-Tier, with
\* the values of that request's decision and tier.
C22_FourHeaders ==
    (last.op = "check" /\ resp.outcome = "response") =>
        /\ {"X-RateLimit-Limit", "X-RateLimit-Remaining", "X-RateLimit-Reset",
            "X-User-Tier"} \subseteq DOMAIN resp.headers
        /\ resp.headers["X-RateLimit-Limit"] = Str(LastDecision.limit)
        /\ resp.headers["X-RateLimit-Remaining"] = Str(LastDecision.remaining)
        /\ resp.headers["X-RateLimit-Reset"]
               = Str(LastDecision.reset_at.n \div LastDecision.reset_at.d)
        /\ resp.headers["X-User-Tier"] = ResolveTier(last.request.api_key)

\* The tier each credential of Credentials belongs to, read off the rule:
\* 'vip_' in front gives vip, 'prem_' in front gives premium, all else free.
ExpectedTier ==
    [api_key \in Credentials |->
        IF api_key \in {Some(VipKey), Some(<<"v", "i", "p", "_">>)} THEN VIP
        ELSE IF api_key \in {Some(PremKey), Some(<<"p", "r", "e", "m", "_">>)} THEN PREMIUM
        ELSE FREE]

\* C23: quota resolution is a total function of the credential alone: vip_
\* credentials get the VIP quota, prem_ credentials the premium quota, every
\* other, the empty and the absent credential the free quota; every quota has
\* limit >= 1 and window >= 1.
C23_QuotaResolution ==
    last.op = "get_quota" =>
        /\ last.tier = ExpectedTier[last.key]
        /\ last.quota = (CASE last.tier = VIP -> Quota(500, 60)
                           [] last.tier = PREMIUM -> Quota(50, 60)
                           [] last.tier = FREE -> Quota(5, 60))
        /\ last.quota.limit >= 1
        /\ last.quota.window >= 1

\* The resolver was asked about a text that holds 'vip_' but not in front,
\* after requests had been counted.
C23_Witness ==
    /\ last.op = "get_quota"
    /\ last.prev = "check"
    /\ last.key = Some(<<"a", "v", "i", "p", "_">>)
    /\ last.tier = FREE
    /\ data /= EmptyDict

\* C24: a get, zcard, zrange or zremrangebyscore on a key whose expiry
\* deadline is strictly in the past returns absent, 0, the empty list and 0,
\* and leaves the key with no value, no sorted set and no deadline.
C24_TtlHonouredAtRead ==
    [][(/\ clock' = clock
        /\ last'.op \in {"get", "zcard", "zrange", "zremrangebyscore"}
        /\ last'.key \in DOMAIN expiry
        /\ expiry[last'.key] < clock) =>
          /\ last'.ret = (CASE last'.op = "get" -> None
                            [] last'.op = "zrange" -> <<>>
                            [] OTHER -> 0)
          /\ last'.key \notin DOMAIN data'
          /\ last'.key \notin DOMAIN sorted_sets'
          /\ last'.key \notin DOMAIN expiry']_vars

\* A zrange found the key expired: it held a value and a non-empty sorted set
\* a moment before, and holds nothing now.
C24_Witness ==
    /\ last.op = "zrange"
    /\ last.prev \in {"set", "expire"}
    /\ last.ret = <<>>
    /\ clock > Ticks(StoreTtl)
    /\ StoreKey \notin DOMAIN data
    /\ StoreKey \notin DOMAIN sorted_sets
    /\ StoreKey \notin DOMAIN expiry

\* C25: expire on a key that is absent, or whose deadline has passed with no
\* set or zadd since, leaves the key absent: a get right after returns absent
\* and a zcard returns 0.
C25_ExpireAbsentIsNoOp ==
    [][(/\ clock' = clock
        /\ last'.op = "expire"
        /\ \/ last'.key \notin DOMAIN data \cup DOMAIN sorted_sets
           \/ last'.key \in DOMAIN expiry /\ expiry[last'.key] < clock) =>
          LET after == Backend(data', sorted_sets', expiry')
          IN  /\ Get(after, last'.key, clock').ret = None
              /\ Zcard(after, last'.key, clock').ret = 0]_vars

\* C27: for both strategies, a check called with limit <= 0 or window <= 0
\* ends in an error, never in an ALLOWED or DENIED decision, and leaves the
\* store as it was (here: as constructed, since every check of the behaviour
\* has the same limit and window).
C27_BadInputRefused ==
    (Checked /\ (cfg_limit <= 0 \/ cfg_window <= 0)) =>
        /\ LastDecision.status \notin {ALLOWED, DENIED}
        /\ data = EmptyDict
        /\ sorted_sets = EmptyDict
        /\ expiry = EmptyDict

\* The store as a reader at time t sees it, with entries that have left the
\* window ending at t set aside: an expired key holds nothing.
Seen(b, t) ==
    LET alive(k) == ~(k \in DOMAIN b.expiry /\ b.expiry[k] < t)
    IN  [data |-> [k \in {x \in DOMAIN b.data : alive(x)} |-> b.data[k]],
         sorted_sets |-> [k \in {x \in DOMAIN b.sorted_sets : alive(x)} |->
                            SelectSeq(b.sorted_sets[k],
                                      LAMBDA e : e.score > t - Ticks(cfg_window))],
         expiry |-> [k \in {x \in DOMAIN b.expiry : alive(x)} |-> b.expiry[k]]]

\* C26: a check of either strategy that is abandoned after any proper prefix
\* of its storage calls leaves the key's stored state, deadline included,
\* either as it was before the check or as the completed check would have
\* left it, up to eviction of entries already outside the window.
C26_CancellationSafe ==
    [][(last'.op = "cancelled" /\ clock' = clock) =>
          LET before == TheBackend
              after == Backend(data', sorted_sets', expiry')
              completed == StrategyCheck(before, Client, cfg_limit, cfg_window, clock,
                                         ReadTimes(clock, NoSkew)).b
          IN  \/ Seen(after, clock) = Seen(before, clock)
              \/ Seen(after, clock) = Seen(completed, clock)]_vars

\* C28: for both strategies and any store state, reset(k) completes, also for
\* a key never seen, and a second reset(k) leaves the store as the first left
\* it: the key holds nothing and resetting again changes nothing.
C28_ResetIdempotent ==
    last.op = "reset" =>
        /\ StoredFor(last.key) = <<None, None, None>>
        /\ StrategyReset(TheBackend, last.key) = TheBackend

\* A reset that directly follows a reset of the same key, at a later clock
\* value than the start.
C28_Witness ==
    /\ last.op = "reset"
    /\ last.prev = "reset"
    /\ last.now > 0
    /\ StoredFor(Client) = <<None, None, None>>

C30_DenialPersistsState ==
    (strategy = "tb" /\ Checked /\ LastDecision.status = DENIED) =>
        LET storage_key == StorageKey(TB_KEY_PREFIX, last.key)
            retry_after == TheValue(LastDecision.retry_after)
        IN  /\ storage_key \in DOMAIN data
            /\ data[storage_key].last_refill = last.now
            /\ (TokenScale - data[storage_key].tokens) * cfg_window * retry_after.d
                   = retry_after.n * TokenScale * cfg_limit
            /\ storage_key \in DOMAIN expiry
            /\ expiry[storage_key] >= last.now + Ticks(2 * cfg_window)


\* C31: a Token Bucket check that reads a clock value earlier than the stored
\* last_refill takes elapsed as 0: the count it decides on is not below the
\* stored count, so a stored bucket holding at least one token is never
\* DENIED.  A DENIED check writes nothing, so the bucket it read is the one
\* still stored.
C31_ClockRegressionClamped ==
    (/\ strategy = "tb"
     /\ Checked
     /\ LastDecision.status = DENIED
     /\ StorageKey(TB_KEY_PREFIX, Client) \in DOMAIN data) =>
        Bucket.tokens < TokenScale


C32_Witness ==
    /\ Checked
    /\ LastDecision.status = ALLOWED
    /\ last.prev = "check"
    /\ last.now > 0
    /\ expiry[StorageKey(Prefix, last.key)]
           > last.now + Ticks(IF strategy = "tb" THEN 2 * cfg_window ELSE cfg_window)


\* C33: every ALLOWED Sliding Window check adds exactly one new entry to the
\* collection of its key: the cardinality after the check is the cardinality
\* it counted after eviction (limit - remaining - 1) plus one, also when two
\* checks on the key read the same clock value.
C33_MemberUniqueness ==
    (strategy = "sw" /\ Checked /\ LastDecision.status = ALLOWED) =>
        Len(Entries(last.key)) = (cfg_limit - LastDecision.remaining - 1) + 1


\* C34: after any zadd, zremrangebyscore, delete and expiry every collection
\* of the in-memory store holds at most one entry per member, in ascending
\* order of score; a zadd of a member the (unexpired) collection holds gives
\* it the new score and leaves the cardinality as it was; and
\* zremrangebyscore(k, lo, hi) on an unexpired key removes exactly the entries
\* with lo <= score <= hi and returns how many they were.
Collection(sets, key) == IF key \in DOMAIN sets THEN sets[key] ELSE <<>>

OnePerMemberAscending(items) ==
    \A i \in 1..Len(items) : \A j \in (i + 1)..Len(items) :
        /\ items[i].member /= items[j].member
        /\ items[i].score <= items[j].score

C34_OrderedCollection ==
    [][/\ \A k \in DOMAIN sorted_sets' : OnePerMemberAscending(sorted_sets'[k])
       /\ \A score \in ZsetScores : \A member \in StoreMembers :
              (/\ last'.op = "zadd"
               /\ ~IsExpired(TheBackend, StoreKey, clock)
               /\ \E i \in 1..Len(Collection(sorted_sets, StoreKey)) :
                      Collection(sorted_sets, StoreKey)[i].member = member
               /\ CallZadd(StoreKey, score, member)) =>
                  /\ Len(sorted_sets'[StoreKey]) = Len(sorted_sets[StoreKey])
                  /\ \E i \in 1..Len(sorted_sets'[StoreKey]) :
                         sorted_sets'[StoreKey][i] = Entry(score, member)
       /\ \A lo \in ZsetScores : \A hi \in ZsetScores :
              (/\ last'.op = "zremrangebyscore"
               /\ ~IsExpired(TheBackend, StoreKey, clock)
               /\ CallZremrangebyscore(StoreKey, lo, hi)) =>
                  /\ Collection(sorted_sets', StoreKey)
                         = SelectSeq(Collection(sorted_sets, StoreKey),
                                     LAMBDA e : e.score < lo \/ e.score > hi)
                  /\ last'.ret
                         = Len(SelectSeq(Collection(sorted_sets, StoreKey),
                                         LAMBDA e : lo <= e.score /\ e.score <= hi))]_vars

\* A zremrangebyscore took one of two entries out of an unexpired collection
\* that a zadd had just extended, and returned 1.
C34_Witness ==
    /\ last.op = "zremrangebyscore"
    /\ last.prev = "zadd"
    /\ last.ret = 1
    /\ ~IsExpired(TheBackend, StoreKey, clock)
    /\ Len(Collection(sorted_sets, StoreKey)) = 1


\* C35: zrange(k, start, stop) on a collection of n entries follows the Redis
\* convention for all integers start and stop: a negative index counts from
\* the end, start is clamped to 0 and stop to n - 1, and the result is the
\* members at the positions start..stop in ascending score order, empty when
\* start > stop after that.
RedisRange(items, start, stop) ==
    LET n == Len(items)
        first == IF start < 0 THEN Max(0, n + start) ELSE start
        last_index == Min(n - 1, IF stop < 0 THEN n + stop ELSE stop)
    IN  IF first > last_index \/ first >= n THEN <<>>
        ELSE [i \in 1..(last_index - first + 1) |-> items[first + i].member]

C35_ZrangeRedisConvention ==
    ~IsExpired(TheBackend, StoreKey, clock) =>
        \A start \in ZsetIndices : \A stop \in ZsetIndices :
            Zrange(TheBackend, StoreKey, start, stop, clock).ret
                = RedisRange(Collection(sorted_sets, StoreKey), start, stop)


\* C36: for both strategies, when a check at time t is DENIED with retry_after
\* r and no other check or reset on the key comes in between, a check at any
\* time t' >= t + r is ALLOWED.  The next check after a DENIED one is the step
\* that leaves a check behind whose time is later than the denial's.
C36_RetryAfterSufficient ==
    [][(/\ Checked
        /\ LastDecision.status = DENIED
        /\ last'.op = "check"
        /\ last'.now > last.now
        /\ FracLeq(FracAdd(Seconds(last.now), TheValue(LastDecision.retry_after)),
                   Seconds(last'.now))) =>
          TheValue(last'.decision).status = ALLOWED]_vars


\* C37: for both strategies, when no ALLOWED decision on the key lies in the
\* last window seconds (DENIED checks may), the next check is ALLOWED with
\* remaining = limit - 1.  hist[Client] holds the ALLOWED decisions on the key,
\* and a check is the step that leaves behind a check record that differs from
\* the one before in its kind, time or decision.
C37_FullRecovery ==
    [][(/\ last'.op = "check"
        /\ \/ last.op /= "check"
           \/ last'.now /= last.now
           \/ last'.decision /= last.decision
        /\ last'.now = clock
        /\ Live(hist[Client], clock) = <<>>) =>
          /\ TheValue(last'.decision).status = ALLOWED
          /\ TheValue(last'.decision).remaining = cfg_limit - 1]_vars


\* C38: for both strategies and any sequence of checks with a fixed limit and
\* window, the decisions (status, remaining) are those a store that never
\* expires keys would give: expiry only takes away state the next check would
\* count as a full bucket or an empty window.  Stated step by step: every
\* check decides as the same check on the same store with its deadlines
\* ignored, and leaves behind the same records and the same entries that a
\* later check can still count (score above the new clock value minus the
\* window); the two stores then agree on everything a later check reads, so
\* the decisions agree for ever.
NeverExpiring == Backend(data, sorted_sets, EmptyDict)

Countable(sets, key, t) ==
    SelectSeq(Collection(sets, key), LAMBDA e : e.score > t - Ticks(cfg_window))

C38_ExpiryUnobservable ==
    [][(/\ last'.op = "check"
        /\ last'.now = clock
        /\ \/ last.op /= "check"
           \/ last'.now /= last.now
           \/ last'.decision /= last.decision
           \/ data' /= data
           \/ sorted_sets' /= sorted_sets) =>
          \E ref \in {StrategyCheck(NeverExpiring, last'.key, cfg_limit, cfg_window,
                                    clock, ReadTimes(clock, NoSkew))} :
              /\ TheValue(last'.decision).status = ref.d.status
              /\ TheValue(last'.decision).remaining = ref.d.remaining
              /\ data' = ref.b.data
              /\ \A k \in DOMAIN sorted_sets' \cup DOMAIN ref.b.sorted_sets :
                     Countable(sorted_sets', k, clock') = Countable(ref.b.sorted_sets, k, clock')]_vars


\* C39: a DENIED Sliding Window check adds no entry to the key's collection,
\* leaves the key's expiry deadline as it was, and removes only entries with
\* score <= now - window; the entries a later check counts are therefore
\* untouched and repeated denied requests never postpone the next ALLOWED one.
RangeOf(items) == {items[i] : i \in 1..Len(items)}

C39_DeniedNotCounted ==
    [][(/\ strategy = "sw"
        /\ last'.op = "check"
        /\ last'.now = clock
        /\ TheValue(last'.decision).status = DENIED) =>
          \E storage_key \in {StorageKey(SW_KEY_PREFIX, last'.key)} :
              /\ RangeOf(Collection(sorted_sets', storage_key))
                     \subseteq RangeOf(Collection(sorted_sets, storage_key))
              /\ \A e \in RangeOf(Collection(sorted_sets, storage_key))
                              \ RangeOf(Collection(sorted_sets', storage_key)) :
                     e.score <= clock - Ticks(cfg_window)
              /\ (storage_key \in DOMAIN expiry') = (storage_key \in DOMAIN expiry)
              /\ storage_key \in DOMAIN expiry => expiry'[storage_key] = expiry[storage_key]]_vars


\* C14, with the floats of the code: a Token Bucket check at time t on a
\* stored bucket (tokens, last_refill) is ALLOWED exactly when
\* min(limit, tokens + (t - last_refill) * limit / window) >= 1, and then
\* stores that amount less one with last_refill = t and returns its floor as
\* remaining.  The amount is computed here without rounding, the decision and
\* the stored bucket are the ones the float arithmetic gives.
ExactLazyTokens(bucket, t) ==
    LET sum == Frac(bucket.tokens.n * bucket.last_refill.d * cfg_window
                      + (t * bucket.last_refill.d - bucket.last_refill.n)
                            * cfg_limit * bucket.tokens.d,
                    bucket.tokens.d * bucket.last_refill.d * cfg_window)
    IN  IF FracLeq(FracOfInt(cfg_limit), sum) THEN FracOfInt(cfg_limit) ELSE sum

FracEqual(a, b) == a.n * b.d = b.n * a.d

C14_LazyRefillInFloats ==
    [][(/\ strategy = "tb"
        /\ StorageKey(TB_KEY_PREFIX, Client) \in DOMAIN data
        /\ last'.op = "check"
        /\ clock' = clock) =>
          \E lazy \in {ExactLazyTokens(Bucket, clock)} :
              /\ (TheValue(last'.decision).status = ALLOWED) <=> FracLeq(FracOfInt(1), lazy)
              /\ TheValue(last'.decision).status = ALLOWED =>
                     /\ FracEqual(Bucket'.tokens, Frac(lazy.n - lazy.d, lazy.d))
                     /\ FracEqual(Bucket'.last_refill, FracOfInt(clock))
                     /\ TheValue(last'.decision).remaining = (lazy.n - lazy.d) \div lazy.d]_vars


\* C32, with the floats of the code: after every completed ALLOWED check at
\* time t the key's deadline is the float nearest to t + 2 * window (Token
\* Bucket) or t + window (Sliding Window), so it is short of that sum by at
\* most half the distance between neighbouring floats at the deadline, and no
\* key a completed call wrote is without a deadline.
FloatSpacing(v) == Pow2(Exponent(v, 1, 0))

====
